---- MODULE Spec2Model ----
(***************************************************************************)
(* A model of rcommerz/logger-go: the process-wide singleton logger        *)
(* (logger.go), its level filter, field building and entry points, and    *)
(* the Fields helper and the Fiber middleware (middleware.go).              *)
(*                                                                         *)
(* Goroutines are the processes of Procs.  Initialize is split into the    *)
(* steps of sync.Once and of the function it runs, because the package     *)
(* variable `instance` is written inside once.Do and read outside of it.   *)
(* A logging call is one step: zap serialises the write of a record.       *)
(***************************************************************************)
EXTENDS Integers, Sequences, FiniteSets, TLC

(***************************************************************************)
(* Bounds of the model.                                                    *)
(***************************************************************************)
NumProcs == 2        \* goroutines
MaxInitCalls == 3    \* Initialize calls started in one behaviour
MaxWritten == 2      \* records written to standard output in one behaviour
MaxArgs == 4         \* arguments of one Fields call
MaxFields == 2       \* entries of a field map passed to a logging call
MaxPermuted == 3     \* keys of a map whose range loop takes every order

Procs == 1..NumProcs

(***************************************************************************)
(* Go values.  An interface{} value is [kind, v]: a string, an int or an   *)
(* error whose Error() text is v.                                          *)
(***************************************************************************)
StrVal(s) == [kind |-> "string", v |-> s]
IntVal(s) == [kind |-> "int", v |-> s]
ErrVal(s) == [kind |-> "error", v |-> s]

\* value.(error): the type assertion of logger.go line 138
IsError(x) == x.kind = "error"

\* key.(string): the type assertion of middleware.go line 160
IsString(x) == x.kind = "string"

(***************************************************************************)
(* LogContext, a Go map[string]interface{}: nil or a finite function.      *)
(* Reading a nil map yields "absent".                                      *)
(***************************************************************************)
EmptyKV == [k \in {} |-> StrVal("")]
NilMap == [nil |-> TRUE, kv |-> EmptyKV]
MkMap(f) == [nil |-> FALSE, kv |-> f]
MapHas(m, k) == k \in DOMAIN m.kv
MapSet(m, k, x) ==
    [nil |-> FALSE,
     kv |-> [y \in (DOMAIN m.kv) \cup {k} |-> IF y = k THEN x ELSE m.kv[y]]]
MapDelete(m, k) ==
    [nil |-> m.nil, kv |-> [y \in (DOMAIN m.kv) \ {k} |-> m.kv[y]]]
MapLen(m) == Cardinality(DOMAIN m.kv)

(***************************************************************************)
(* LogLevel and LogType constants.                                         *)
(***************************************************************************)
LevelINFO == "INFO"
LevelERROR == "ERROR"
LevelWARN == "WARN"
LevelDEBUG == "DEBUG"

TypeNormal == "normal"
TypeHTTP == "http"
TypeError == "error"
TypeSecurity == "security"
TypeAudit == "audit"
TypeDebug == "debug"

\* zapcore.Level values, ordered Debug < Info < Warn < Error
DebugLevel == -1
InfoLevel == 0
WarnLevel == 1
ErrorLevel == 2

(***************************************************************************)
(* Config.  ServiceVersion and Env are varied only in RaceCfgs.            *)
(***************************************************************************)
Config(name, level) ==
    [ServiceName |-> name, ServiceVersion |-> "1.0.0", Env |-> "test",
     Level |-> level]
NoCfg == [ServiceName |-> "", ServiceVersion |-> "", Env |-> "", Level |-> ""]

\* Level values a caller can put into Config.Level (LogLevel is a string type)
LevelInputs ==
    {LevelDEBUG, LevelINFO, LevelWARN, LevelERROR,
     "debug", "info", "warn", "error", ""}

(***************************************************************************)
(* The Logger object and the zap logger it wraps.  A zap logger is its     *)
(* level threshold and the constant fields attached with With; `set` is    *)
(* FALSE for the nil *zap.Logger of a Logger whose zap field is not yet    *)
(* assigned.                                                               *)
(***************************************************************************)
NoZap == [set |-> FALSE, level |-> 0, with |-> <<>>]

\* getZapLevel converts LogLevel to zapcore.Level
getZapLevelNoWarn(l) ==
    CASE l.config.Level = LevelDEBUG -> DebugLevel
      [] l.config.Level = LevelERROR -> ErrorLevel
      [] OTHER -> InfoLevel

getZapLevel(l) ==
    CASE l.config.Level = LevelDEBUG -> DebugLevel
      [] l.config.Level = LevelWARN -> WarnLevel
      [] l.config.Level = LevelERROR -> ErrorLevel
      [] OTHER -> InfoLevel

\* buildZapLogger: the core filtered at getZapLevel, with the constant fields;
\* hostname is what os.Hostname() returned ("" when it failed)
buildZapLoggerZeroConfig(l, hostname) ==
    [set |-> TRUE,
     level |-> getZapLevel(l),
     with |-> << <<"service.name", StrVal("")>>,
                 <<"service.version", StrVal("")>>,
                 <<"env", StrVal("")>>,
                 <<"host.name", StrVal(hostname)>> >>]

buildZapLogger(l, hostname) ==
    [set |-> TRUE,
     level |-> getZapLevel(l),
     with |-> << <<"service.name", StrVal(l.config.ServiceName)>>,
                 <<"service.version", StrVal(l.config.ServiceVersion)>>,
                 <<"env", StrVal(l.config.Env)>>,
                 <<"host.name", StrVal(hostname)>> >>]

(***************************************************************************)
(* context.Context: nil, or a context whose span context holds a trace id  *)
(* and a span id (0 is the all-zero id; a context without a span has the   *)
(* zero span context).  Ids are one byte here, printed as two hex digits.  *)
(***************************************************************************)
NilCtx == [nil |-> TRUE, traceID |-> 0, spanID |-> 0]
Ctx(t, s) == [nil |-> FALSE, traceID |-> t, spanID |-> s]

Hex == <<"0", "1", "2", "3", "4", "5", "6", "7",
         "8", "9", "a", "b", "c", "d", "e", "f">>
IDString(n) == Hex[(n \div 16) + 1] \o Hex[(n % 16) + 1]

\* trace.SpanContext.IsValid: both ids are non-zero
IsValid(ctx) == ctx.traceID # 0 /\ ctx.spanID # 0

\* getTraceContext extracts trace_id and span_id from the context
getTraceContextNoValidCheck(ctx) ==
    IF ctx.nil
    THEN <<>>
    ELSE << <<"trace_id", StrVal(IDString(ctx.traceID))>>,
            <<"span_id", StrVal(IDString(ctx.spanID))>> >>

getTraceContext(ctx) ==
    IF ctx.nil
    THEN <<>>
    ELSE IF ~IsValid(ctx)
         THEN <<>>
         ELSE << <<"trace_id", StrVal(IDString(ctx.traceID))>>,
                 <<"span_id", StrVal(IDString(ctx.spanID))>> >>

\* the orders in which `for key, value := range context` can visit the keys
RECURSIVE Orders(_)
Orders(S) ==
    IF S = {}
    THEN {<<>>}
    ELSE UNION {{<<k>> \o o : o \in Orders(S \ {k})} : k \in S}

\* The orders in which a range loop can visit the keys of a map.  A map of
\* at most MaxPermuted keys is visited in every order.  A larger one, which
\* only the middleware builds, is visited in the order of KeyOrder started
\* at any of its keys: one order for each key that can come first.
KeyOrder == <<"method", "path", "status_code", "duration_ms", "ip",
              "user_agent", "query", "headers", "user_id", "panic">>
Rotate(o, n) == SubSeq(o, n + 1, Len(o)) \o SubSeq(o, 1, n)
RangeOrders(S) ==
    IF \/ Cardinality(S) <= MaxPermuted
       \/ ~(S \subseteq {KeyOrder[i] : i \in DOMAIN KeyOrder})
    THEN Orders(S)
    ELSE {Rotate(SelectSeq(KeyOrder, LAMBDA k : k \in S), n) :
            n \in 0..(Cardinality(S) - 1)}

buildFieldsTraceLast(ctx, logType, context) ==
    {<< <<"log_type", StrVal(logType)>> >>
        \o [i \in 1..Len(o) |-> <<o[i], context.kv[o[i]]>>]
        \o getTraceContext(ctx) :
     o \in RangeOrders(DOMAIN context.kv)}

buildFieldsCallerWins(ctx, logType, context) ==
    {SelectSeq(<< <<"log_type", StrVal(logType)>> >> \o getTraceContext(ctx),
               LAMBDA f : ~MapHas(context, f[1]))
        \o [i \in 1..Len(o) |-> <<o[i], context.kv[o[i]]>>] :
     o \in RangeOrders(DOMAIN context.kv)}

\* buildFields: log_type, the trace fields, then the entries of the map in
\* one of the orders of the range loop
buildFields(ctx, logType, context) ==
    {<< <<"log_type", StrVal(logType)>> >>
        \o getTraceContext(ctx)
        \o [i \in 1..Len(o) |-> <<o[i], context.kv[o[i]]>>] :
     o \in RangeOrders(DOMAIN context.kv)}

\* zap.Logger.Info/Warn/Error/Debug: a nil receiver panics; otherwise the
\* record is written when level is at or above the core's threshold
zapLogNoFilter(z, level, message, fields) ==
    IF ~z.set
    THEN [panic |-> TRUE, out |-> <<>>]
    ELSE [panic |-> FALSE,
          out |-> <<[level |-> level, message |-> message,
                     fields |-> z.with \o fields]>>]

zapLog(z, level, message, fields) ==
    IF ~z.set
    THEN [panic |-> TRUE, out |-> <<>>]
    ELSE [panic |-> FALSE,
          out |-> IF level >= z.level
                  THEN <<[level |-> level, message |-> message,
                          fields |-> z.with \o fields]>>
                  ELSE <<>>]

\* the outcomes of one call: what was written, and the caller's map after it
Emit(l, ctx, level, logType, message, context) ==
    {[panic |-> zapLog(l.zap, level, message, f).panic,
      out |-> zapLog(l.zap, level, message, f).out,
      after |-> context] : f \in buildFields(ctx, logType, context)}

\* the `if err, ok := context["error"].(error); ok` block of Error
ErrorObjectKeepKey(context) ==
    IF MapHas(context, "error") /\ IsError(context.kv["error"])
    THEN MapSet(MapSet(context, "error_message",
                       StrVal(context.kv["error"].v)),
                "error_type", StrVal("error"))
    ELSE context

ErrorObjectAnyValue(context) ==
    IF MapHas(context, "error")
    THEN MapDelete(MapSet(MapSet(context, "error_message",
                                 StrVal(context.kv["error"].v)),
                          "error_type", StrVal("error")),
                   "error")
    ELSE context

ErrorObjectMakesMap(context) ==
    IF context.nil
    THEN MkMap(EmptyKV)
    ELSE IF MapHas(context, "error") /\ IsError(context.kv["error"])
    THEN MapDelete(MapSet(MapSet(context, "error_message",
                                 StrVal(context.kv["error"].v)),
                          "error_type", StrVal("error")),
                   "error")
    ELSE context

ErrorObject(context) ==
    IF MapHas(context, "error") /\ IsError(context.kv["error"])
    THEN MapDelete(MapSet(MapSet(context, "error_message",
                                 StrVal(context.kv["error"].v)),
                          "error_type", StrVal("error")),
                   "error")
    ELSE context

Info(l, ctx, message, context) ==
    Emit(l, ctx, InfoLevel, TypeNormal, message, context)

ErrorOnCopy(l, ctx, message, context) ==
    {[r EXCEPT !.after = context] :
        r \in Emit(l, ctx, ErrorLevel, TypeError, message,
                   ErrorObject(context))}

Error(l, ctx, message, context) ==
    Emit(l, ctx, ErrorLevel, TypeError, message, ErrorObject(context))

WarnAtInfo(l, ctx, message, context) ==
    Emit(l, ctx, InfoLevel, TypeNormal, message, context)

Warn(l, ctx, message, context) ==
    Emit(l, ctx, WarnLevel, TypeNormal, message, context)

Debug(l, ctx, message, context) ==
    Emit(l, ctx, DebugLevel, TypeDebug, message, context)

HTTP(l, ctx, message, context) ==
    Emit(l, ctx, InfoLevel, TypeHTTP, message, context)

SecurityAsInfo(l, ctx, message, context) ==
    Emit(l, ctx, InfoLevel, TypeSecurity, message, context)

Security(l, ctx, message, context) ==
    Emit(l, ctx, WarnLevel, TypeSecurity, message, context)

Audit(l, ctx, message, context) ==
    Emit(l, ctx, InfoLevel, TypeAudit, message, context)

EntryPoints == {"Info", "Error", "Warn", "Debug", "HTTP", "Security", "Audit"}

\* the method of Logger a caller names
Call(e, l, ctx, message, context) ==
    CASE e = "Info" -> Info(l, ctx, message, context)
      [] e = "Error" -> Error(l, ctx, message, context)
      [] e = "Warn" -> Warn(l, ctx, message, context)
      [] e = "Debug" -> Debug(l, ctx, message, context)
      [] e = "HTTP" -> HTTP(l, ctx, message, context)
      [] e = "Security" -> Security(l, ctx, message, context)
      [] e = "Audit" -> Audit(l, ctx, message, context)

(***************************************************************************)
(* Fields: the map of alternating key/value arguments, or a panic.         *)
(***************************************************************************)
RECURSIVE FieldsLoop(_, _, _)
FieldsLoop(keysAndValues, i, context) ==
    IF i < Len(keysAndValues) - 1
    THEN IF ~IsString(keysAndValues[i + 1])
         THEN [panic |-> "Field keys must be strings", context |-> NilMap]
         ELSE FieldsLoop(keysAndValues, i + 2,
                         MapSet(context, keysAndValues[i + 1].v,
                                keysAndValues[i + 2]))
    ELSE [panic |-> "", context |-> context]

FieldsNoParityCheck(keysAndValues) ==
    FieldsLoop(keysAndValues, 0, MkMap(EmptyKV))

Fields(keysAndValues) ==
    IF Len(keysAndValues) % 2 # 0
    THEN [panic |-> "Fields requires an even number of arguments",
          context |-> NilMap]
    ELSE FieldsLoop(keysAndValues, 0, MkMap(EmptyKV))

(***************************************************************************)
(* Sync: return l.zap.Sync().  zap flushes the sink once and hands back    *)
(* what the flush returned; flush is that result, nil or an error.         *)
(***************************************************************************)
NilVal == [kind |-> "nil", v |-> ""]

zapSync(z, flush) ==
    IF ~z.set
    THEN [panic |-> TRUE, ret |-> NilVal, flushes |-> 0]
    ELSE [panic |-> FALSE, ret |-> flush, flushes |-> 1]

SyncDropError(l, flush) ==
    [zapSync(l.zap, flush) EXCEPT !.ret = NilVal]

Sync(l, flush) == zapSync(l.zap, flush)

(***************************************************************************)
(* The Fiber middleware of middleware.go.                                  *)
(* A path is the sequence of its characters, so that one path can be a     *)
(* proper prefix of another.  A fiber.Ctx is a record of the request and   *)
(* of the response built so far; locals is the value of Locals("user_id"). *)
(* What a handler call does is a record                                    *)
(*   c       the fiber.Ctx after it                                        *)
(*   ret     the error it returned (NilVal for nil)                        *)
(*   panic   the value it panicked with (NilVal when it returned)          *)
(*   out     the records written during it, in order                       *)
(*   calls   how many times the route handler ran                          *)
(***************************************************************************)
StatusInternalServerError == 500

RECURSIVE PathString(_)
PathString(path) ==
    IF path = <<>> THEN "" ELSE Head(path) \o PathString(Tail(path))

\* MiddlewareOptions; opts == nil stands for a nil *MiddlewareOptions
NilOpts == [nil |-> TRUE, ExcludePaths |-> <<>>, IncludeBody |-> FALSE,
            IncludeHeaders |-> FALSE]
MiddlewareOptions(excludePaths, includeBody, includeHeaders) ==
    [nil |-> FALSE, ExcludePaths |-> excludePaths,
     IncludeBody |-> includeBody, IncludeHeaders |-> includeHeaders]

\* FiberMiddleware(opts): the options and the handle the closure captures
FiberMiddlewareKeepNil(opts, logger) ==
    [kind |-> "access", opts |-> opts, logger |-> logger]

FiberMiddleware(opts, logger) ==
    [kind |-> "access",
     opts |-> IF opts.nil THEN MiddlewareOptions(<<>>, FALSE, FALSE)
              ELSE opts,
     logger |-> logger]

\* RecoveryMiddleware(): the handle the closure captures
RecoveryMiddleware(logger) ==
    [kind |-> "recovery", opts |-> NilOpts, logger |-> logger]

\* the loop over opts.ExcludePaths: path == excludePath for some entry
IsPrefix(a, b) == Len(a) <= Len(b) /\ SubSeq(b, 1, Len(a)) = a

ExcludedByPrefix(excludePaths, path) ==
    \E i \in 1..Len(excludePaths) : IsPrefix(excludePaths[i], path)

Excluded(excludePaths, path) ==
    \E i \in 1..Len(excludePaths) : path = excludePaths[i]

\* duration.Milliseconds() of a duration given in microseconds
Milliseconds(duration) == duration \div 1000

\* the keys an access record has only on a condition
AccessOptionalAlwaysQuery(opts, c) ==
    {"query"}
       \cup (IF opts.IncludeHeaders THEN {"headers"} ELSE {})
       \cup (IF c.locals # NilVal THEN {"user_id"} ELSE {})

AccessOptional(opts, c) ==
    (IF c.query # "" THEN {"query"} ELSE {})
       \cup (IF opts.IncludeHeaders THEN {"headers"} ELSE {})
       \cup (IF c.locals # NilVal THEN {"user_id"} ELSE {})

\* the LogContext of an access record
AccessContext(opts, c, path, duration) ==
    MkMap([k \in {"method", "path", "status_code", "duration_ms", "ip",
                  "user_agent"} \cup AccessOptional(opts, c) |->
             CASE k = "method" -> StrVal(c.method)
               [] k = "path" -> StrVal(PathString(path))
               [] k = "status_code" -> IntVal(ToString(c.status))
               [] k = "duration_ms" ->
                     IntVal(ToString(Milliseconds(duration)))
               [] k = "ip" -> StrVal(c.ip)
               [] k = "user_agent" -> StrVal(c.userAgent)
               [] k = "query" -> StrVal(c.query)
               [] k = "headers" -> [kind |-> "headers", v |-> c.headers]
               [] k = "user_id" -> c.locals])

\* fmt.Sprintf("%s %s %d", c.Method(), path, c.Response().StatusCode())
AccessMessageNoStatus(c, path) ==
    c.method \o " " \o PathString(path)

AccessMessage(c, path) ==
    c.method \o " " \o PathString(path) \o " " \o ToString(c.status)

\* the entry point the status code selects
DispatchAbove(statusCode) ==
    IF statusCode > 500 THEN "Error"
    ELSE IF statusCode > 400 THEN "Warn"
    ELSE "HTTP"

Dispatch(statusCode) ==
    IF statusCode >= 500 THEN "Error"
    ELSE IF statusCode >= 400 THEN "Warn"
    ELSE "HTTP"

\* a call on a Logger whose zap is nil panics with this runtime error
NilDereference ==
    ErrVal("invalid memory address or nil pointer dereference")

\* the LogContext of the record of a recovered panic
PanicContext(c, r) ==
    MkMap([k \in {"method", "path", "panic", "status_code"} |->
             CASE k = "method" -> StrVal(c.method)
               [] k = "path" -> StrVal(PathString(c.path))
               [] k = "panic" -> r
               [] k = "status_code" -> IntVal("500")])

\* the route handler: it panics with a value, or it sets the status, the
\* body and Locals("user_id") and returns nil or an error
Handler(c, hb) ==
    IF hb.panic # NilVal
    THEN [c |-> c, ret |-> NilVal, panic |-> hb.panic, out |-> <<>>,
          calls |-> 1]
    ELSE [c |-> [c EXCEPT !.status = hb.status, !.body = "ok",
                          !.locals = hb.userID],
          ret |-> hb.ret, panic |-> NilVal, out |-> <<>>, calls |-> 1]

\* what the access handler returns: the err of c.Next()
AccessReturnNil(err) == NilVal

AccessReturn(err) == err

\* the closure FiberMiddleware returns; downstream is what c.Next() does.
\* opts.ExcludePaths on a nil opts is a nil pointer dereference.
FiberHandlerLogsPanic(mw, c, duration, downstream) ==
    IF Excluded(mw.opts.ExcludePaths, c.path)
    THEN downstream
    ELSE UNION {
           {[c |-> r.c,
             ret |-> IF lg.panic THEN NilVal ELSE AccessReturn(r.ret),
             panic |-> IF lg.panic THEN NilDereference ELSE r.panic,
             out |-> r.out \o lg.out,
             calls |-> r.calls] :
            lg \in Call(Dispatch(r.c.status), mw.logger, r.c.userCtx,
                        AccessMessage(r.c, c.path),
                        AccessContext(mw.opts, r.c, c.path, duration))}
           : r \in downstream}

FiberHandler(mw, c, duration, downstream) ==
    IF mw.opts.nil
    THEN {[c |-> c, ret |-> NilVal, panic |-> NilDereference, out |-> <<>>,
           calls |-> 0]}
    ELSE IF Excluded(mw.opts.ExcludePaths, c.path)
    THEN downstream
    ELSE UNION {
           IF r.panic # NilVal
           THEN {r}
           ELSE {[c |-> r.c,
                  ret |-> IF lg.panic THEN NilVal ELSE AccessReturn(r.ret),
                  panic |-> IF lg.panic THEN NilDereference ELSE NilVal,
                  out |-> r.out \o lg.out,
                  calls |-> r.calls] :
                 lg \in Call(Dispatch(r.c.status), mw.logger, r.c.userCtx,
                             AccessMessage(r.c, c.path),
                             AccessContext(mw.opts, r.c, c.path, duration))}
           : r \in downstream}

\* the closure RecoveryMiddleware returns: the deferred function recovers
\* a panic of c.Next(), logs it and answers 500
RecoveryHandlerSilent(mw, c, downstream) ==
    {IF r.panic = NilVal
     THEN r
     ELSE [c |-> [r.c EXCEPT !.status = StatusInternalServerError,
                             !.body = "{\"error\":\"internal server error\"}"],
           ret |-> NilVal, panic |-> NilVal, out |-> r.out,
           calls |-> r.calls] : r \in downstream}

RecoveryHandlerKeepStatus(mw, c, downstream) ==
    UNION {
      IF r.panic = NilVal
      THEN {r}
      ELSE {[c |-> r.c, ret |-> NilVal,
             panic |-> IF lg.panic THEN NilDereference ELSE NilVal,
             out |-> r.out \o lg.out, calls |-> r.calls] :
            lg \in Error(mw.logger, r.c.userCtx, "Panic recovered",
                         PanicContext(r.c, r.panic))}
      : r \in downstream}

RecoveryHandler(mw, c, downstream) ==
    UNION {
      IF r.panic = NilVal
      THEN {r}
      ELSE {IF lg.panic
            THEN [c |-> r.c, ret |-> NilVal, panic |-> NilDereference,
                  out |-> r.out \o lg.out, calls |-> r.calls]
            ELSE [c |-> [r.c EXCEPT
                           !.status = StatusInternalServerError,
                           !.body = "{\"error\":\"internal server error\"}"],
                  ret |-> NilVal, panic |-> NilVal,
                  out |-> r.out \o lg.out, calls |-> r.calls] :
            lg \in Error(mw.logger, r.c.userCtx, "Panic recovered",
                         PanicContext(r.c, r.panic))}
      : r \in downstream}

\* c.Next(): the handler at position i of the stack app.Use built, and
\* after the last one the route handler
RECURSIVE HandlerAt(_, _, _, _)
HandlerAt(stack, i, c, hb) ==
    IF i > Len(stack)
    THEN {Handler(c, hb)}
    ELSE IF stack[i].kind = "access"
    THEN FiberHandler(stack[i], c, hb.duration,
                      HandlerAt(stack, i + 1, c, hb))
    ELSE RecoveryHandler(stack[i], c, HandlerAt(stack, i + 1, c, hb))

(***************************************************************************)
(* State.                                                                  *)
(*   instance, once   the package variables of logger.go                   *)
(*   heap             the Logger objects allocated so far; a *Logger is an *)
(*                    index into heap, 0 is nil                            *)
(*   pc, cfg, h       per goroutine: where it is, the config argument of   *)
(*                    its Initialize call, the *Logger it holds            *)
(*   args             per goroutine: the arguments of its logging call     *)
(*                    site; context is the caller's own map, which a call  *)
(*                    can change in place                                  *)
(*   out, written     the records the last logging call wrote to standard  *)
(*                    output, and how many were written in all             *)
(* The remaining variables record what was called and what came back:      *)
(* getRes the last GetInstance call, lastLog the last logging call (with   *)
(* later, whether more than one Initialize call had returned before it,    *)
(* and other, whether the logging call before it was another goroutine's   *)
(* and wrote a record),                                                    *)
(* fieldsCall the last Fields call, syncCall the last Sync call.           *)
(*   app             the middleware stack app.Use has built, whether       *)
(*                   building it panicked, whether FiberMiddleware got nil *)
(*                   options, and whether a middleware was constructed     *)
(*                   when no Initialize call had returned yet              *)
(*   req             the request that has arrived and is not yet served:   *)
(*                   its fiber.Ctx and what the route handler will do      *)
(*   resp            the last request served and what serving it did       *)
(***************************************************************************)
VARIABLES instance, once, heap, pc, cfg, h,
          nInitCalls, nInitDone, firstCfg, overlapped, contended, diffCfg,
          initRet, getRes, args, lastLog, out, written, fieldsCall,
          app, req, resp, syncCall

vars == <<instance, once, heap, pc, cfg, h,
          nInitCalls, nInitDone, firstCfg, overlapped, contended, diffCfg,
          initRet, getRes, args, lastLog, out, written, fieldsCall,
          app, req, resp, syncCall>>

initVars == <<instance, once, heap, pc, cfg>>
initHist == <<nInitCalls, nInitDone, firstCfg, overlapped, contended,
              diffCfg, initRet>>
logVars == <<args, lastLog, out, written>>
httpVars == <<app, req, resp>>

NoGet == [outcome |-> "none", proc |-> 0, handle |-> 0, completed |-> FALSE]
NoArgs == [set |-> FALSE, entry |-> "", ctx |-> NilCtx, message |-> "",
           context |-> NilMap]
NoLog == [outcome |-> "none", proc |-> 0, entry |-> "", ctx |-> NilCtx,
          message |-> "", before |-> NilMap, after |-> NilMap,
          later |-> FALSE, other |-> FALSE]
NoFields == [called |-> FALSE, args |-> <<>>, panic |-> "",
             context |-> NilMap]
NoSync == [called |-> FALSE, proc |-> 0, flush |-> NilVal, panic |-> FALSE,
           ret |-> NilVal, flushes |-> 0]
NoApp == [stack |-> <<>>, panic |-> FALSE, nilOpts |-> FALSE,
          early |-> FALSE]
NoC == [method |-> "", path |-> <<>>, query |-> "", userAgent |-> "",
        ip |-> "", headers |-> "", userCtx |-> NilCtx, locals |-> NilVal,
        status |-> 0, body |-> ""]
NoHb == [panic |-> NilVal, status |-> 0, ret |-> NilVal, userID |-> NilVal,
         duration |-> 0]
NoReq == [set |-> FALSE, c |-> NoC, hb |-> NoHb]
NoResp == [served |-> FALSE, c |-> NoC, hb |-> NoHb,
           r |-> [c |-> NoC, ret |-> NilVal, panic |-> NilVal, out |-> <<>>,
                  calls |-> 0]]

Init ==
    /\ instance = 0
    /\ once = [done |-> FALSE, m |-> 0]
    /\ heap = <<>>
    /\ pc = [p \in Procs |-> "idle"]
    /\ cfg = [p \in Procs |-> NoCfg]
    /\ h = [p \in Procs |-> 0]
    /\ nInitCalls = 0
    /\ nInitDone = 0
    /\ firstCfg = NoCfg
    /\ overlapped = FALSE
    /\ contended = FALSE
    /\ diffCfg = FALSE
    /\ initRet = {}
    /\ getRes = NoGet
    /\ args = [p \in Procs |-> NoArgs]
    /\ lastLog = NoLog
    /\ out = <<>>
    /\ written = 0
    /\ fieldsCall = NoFields
    /\ app = NoApp
    /\ req = NoReq
    /\ resp = NoResp
    /\ syncCall = NoSync

InFlight(q) == pc[q] # "idle"

(***************************************************************************)
(* Initialize(config): once.Do(f); return instance.                        *)
(* sync.Once.Do is: if done is not set, lock m; if done is still not set,  *)
(* run f and then set done; unlock m.                                      *)
(***************************************************************************)
\* a goroutine calls Initialize(config) and reaches once.Do
InitializeCallNoOnce(p, config) ==
    /\ pc[p] = "idle"
    /\ nInitCalls < MaxInitCalls
    /\ pc' = [pc EXCEPT ![p] = "l27"]
    /\ cfg' = [cfg EXCEPT ![p] = config]
    /\ nInitCalls' = nInitCalls + 1
    /\ firstCfg' = IF nInitCalls = 0 THEN config ELSE firstCfg
    /\ diffCfg' = (diffCfg \/ (nInitCalls > 0 /\ config # firstCfg))
    /\ overlapped' = (overlapped \/ \E q \in Procs \ {p} : InFlight(q))
    /\ UNCHANGED <<instance, once, heap, h, nInitDone, contended, initRet,
                   getRes, logVars, fieldsCall,
                   httpVars, syncCall>>

InitializeCall(p, config) ==
    /\ pc[p] = "idle"
    /\ nInitCalls < MaxInitCalls
    /\ pc' = [pc EXCEPT ![p] = "once"]
    /\ cfg' = [cfg EXCEPT ![p] = config]
    /\ nInitCalls' = nInitCalls + 1
    /\ firstCfg' = IF nInitCalls = 0 THEN config ELSE firstCfg
    /\ diffCfg' = (diffCfg \/ (nInitCalls > 0 /\ config # firstCfg))
    /\ overlapped' = (overlapped \/ \E q \in Procs \ {p} : InFlight(q))
    /\ UNCHANGED <<instance, once, heap, h, nInitDone, contended, initRet,
                   getRes, logVars, fieldsCall,
                   httpVars, syncCall>>

\* once.Do, fast path: the load of done
OnceDo(p) ==
    /\ pc[p] = "once"
    /\ pc' = [pc EXCEPT ![p] = IF once.done THEN "ret" ELSE "lock"]
    /\ contended' =
          (contended \/ (~once.done /\ \E q \in Procs \ {p} :
                            pc[q] \in {"lock", "l27", "l30", "unlock"}))
    /\ UNCHANGED <<instance, once, heap, cfg, h, nInitCalls, nInitDone,
                   firstCfg, overlapped, diffCfg, initRet, getRes, logVars,
                   fieldsCall,
                   httpVars, syncCall>>

\* once.Do, slow path: m.Lock(), then the second load of done
OnceLockNoRecheck(p) ==
    /\ pc[p] = "lock"
    /\ once.m = 0
    /\ once' = [once EXCEPT !.m = p]
    /\ pc' = [pc EXCEPT ![p] = "l27"]
    /\ UNCHANGED <<instance, heap, cfg, h, initHist, getRes, logVars,
                   fieldsCall,
                   httpVars, syncCall>>

OnceLock(p) ==
    /\ pc[p] = "lock"
    /\ once.m = 0
    /\ IF once.done
       THEN /\ pc' = [pc EXCEPT ![p] = "ret"]
            /\ once' = once
       ELSE /\ pc' = [pc EXCEPT ![p] = "l27"]
            /\ once' = [once EXCEPT !.m = p]
    /\ UNCHANGED <<instance, heap, cfg, h, initHist, getRes, logVars,
                   fieldsCall,
                   httpVars, syncCall>>

\* instance = &Logger{config: config}
NewLogger(p) ==
    /\ pc[p] = "l27"
    /\ heap' = Append(heap, [config |-> cfg[p], zap |-> NoZap])
    /\ instance' = Len(heap) + 1
    /\ pc' = [pc EXCEPT ![p] = "l30"]
    /\ UNCHANGED <<once, cfg, h, initHist, getRes, logVars, fieldsCall,
                   httpVars, syncCall>>

\* instance.zap = instance.buildZapLogger()
SetZap(p, hostname) ==
    /\ pc[p] = "l30"
    /\ heap' = [heap EXCEPT ![instance].zap =
                   buildZapLogger(heap[instance], hostname)]
    /\ pc' = [pc EXCEPT ![p] = "unlock"]
    /\ UNCHANGED <<instance, once, cfg, h, initHist, getRes, logVars,
                   fieldsCall,
                   httpVars, syncCall>>

\* f has returned: done is set and m unlocked
OnceDone(p) ==
    /\ pc[p] = "unlock"
    /\ once' = [done |-> TRUE, m |-> 0]
    /\ pc' = [pc EXCEPT ![p] = "ret"]
    /\ UNCHANGED <<instance, heap, cfg, h, initHist, getRes, logVars,
                   fieldsCall,
                   httpVars, syncCall>>

\* return instance
InitializeReturn(p) ==
    /\ pc[p] = "ret"
    /\ h' = [h EXCEPT ![p] = instance]
    /\ pc' = [pc EXCEPT ![p] = "idle"]
    /\ cfg' = [cfg EXCEPT ![p] = NoCfg]
    /\ initRet' = initRet \cup {instance}
    /\ nInitDone' = nInitDone + 1
    /\ UNCHANGED <<instance, once, heap, nInitCalls, firstCfg, overlapped,
                   contended, diffCfg, getRes, logVars, fieldsCall,
                   httpVars, syncCall>>

(***************************************************************************)
(* GetInstance: panic when instance is nil, else return it.                *)
(***************************************************************************)
GetInstance(p) ==
    /\ pc[p] = "idle"
    /\ IF instance = 0
       THEN /\ getRes' = [outcome |-> "panic", proc |-> p, handle |-> 0,
                          completed |-> nInitDone > 0]
            /\ h' = h
       ELSE /\ getRes' = [outcome |-> "returned", proc |-> p,
                          handle |-> instance, completed |-> nInitDone > 0]
            /\ h' = [h EXCEPT ![p] = instance]
    /\ UNCHANGED <<initVars, initHist, logVars, fieldsCall,
                   httpVars, syncCall>>

(***************************************************************************)
(* A call of a logging method on the *Logger the goroutine holds.          *)
(* Prepare fixes the arguments of the goroutine's call site; Log is the    *)
(* call.  The map argument is passed by reference, so what the method      *)
(* does to it stays in args[p].context.                                    *)
(***************************************************************************)
Prepare(p, e, ctx, message, context) ==
    /\ pc[p] = "idle"
    /\ h[p] # 0
    /\ ~args[p].set
    /\ args' = [args EXCEPT ![p] =
                   [set |-> TRUE, entry |-> e, ctx |-> ctx,
                    message |-> message, context |-> context]]
    /\ UNCHANGED <<initVars, h, initHist, getRes, lastLog, out, written,
                   fieldsCall,
                   httpVars, syncCall>>

LogOthersArgs(p) ==
    /\ pc[p] = "idle"
    /\ h[p] # 0
    /\ args[p].set
    /\ written < MaxWritten
    /\ \E q \in Procs :
          /\ args[q].set
          /\ \E r \in Call(args[q].entry, heap[h[p]], args[q].ctx,
                           args[q].message, args[q].context) :
                /\ out' = r.out
                /\ written' = written + Len(r.out)
                /\ args' = [args EXCEPT ![p].context = r.after]
                /\ lastLog' = [outcome |-> IF r.panic THEN "panic"
                                           ELSE "returned",
                               proc |-> p, entry |-> args[p].entry,
                               ctx |-> args[p].ctx,
                               message |-> args[p].message,
                               before |-> args[p].context,
                               after |-> r.after,
                               later |-> nInitDone > 1,
                               other |-> /\ lastLog.proc \notin {0, p}
                                         /\ out # <<>>]
    /\ UNCHANGED <<initVars, h, initHist, getRes, fieldsCall,
                   httpVars, syncCall>>

Log(p) ==
    /\ pc[p] = "idle"
    /\ h[p] # 0
    /\ args[p].set
    /\ written < MaxWritten
    /\ \E r \in Call(args[p].entry, heap[h[p]], args[p].ctx,
                     args[p].message, args[p].context) :
          /\ out' = r.out
          /\ written' = written + Len(r.out)
          /\ args' = [args EXCEPT ![p].context = r.after]
          /\ lastLog' = [outcome |-> IF r.panic THEN "panic" ELSE "returned",
                         proc |-> p, entry |-> args[p].entry,
                         ctx |-> args[p].ctx, message |-> args[p].message,
                         before |-> args[p].context, after |-> r.after,
                         later |-> nInitDone > 1,
                         other |-> lastLog.proc \notin {0, p} /\ out # <<>>]
    /\ UNCHANGED <<initVars, h, initHist, getRes, fieldsCall,
                   httpVars, syncCall>>

(***************************************************************************)
(* A call of Fields.                                                       *)
(***************************************************************************)
FieldsCall(keysAndValues) ==
    /\ fieldsCall' = [called |-> TRUE, args |-> keysAndValues,
                      panic |-> Fields(keysAndValues).panic,
                      context |-> Fields(keysAndValues).context]
    /\ UNCHANGED <<initVars, h, initHist, getRes, logVars,
                   httpVars, syncCall>>

(***************************************************************************)
(* A call of Sync on the handle the goroutine holds; flush is what the     *)
(* flush of standard output returns.                                       *)
(***************************************************************************)
SyncCall(p, flush) ==
    /\ pc[p] = "idle"
    /\ h[p] # 0
    /\ syncCall' = [called |-> TRUE, proc |-> p, flush |-> flush,
                    panic |-> Sync(heap[h[p]], flush).panic,
                    ret |-> Sync(heap[h[p]], flush).ret,
                    flushes |-> Sync(heap[h[p]], flush).flushes]
    /\ UNCHANGED <<initVars, h, initHist, getRes, logVars, fieldsCall,
                   httpVars>>

(***************************************************************************)
(* The Fiber application.                                                  *)
(***************************************************************************)
\* app.Use(FiberMiddleware(opts)) and app.Use(RecoveryMiddleware()): the
\* constructor calls GetInstance, which panics when instance is nil
Use(p, kind, opts) ==
    /\ pc[p] = "idle"
    /\ ~app.panic
    /\ app' = IF instance = 0
              THEN [app EXCEPT !.panic = TRUE]
              ELSE [app EXCEPT !.stack =
                      Append(@, IF kind = "access"
                                THEN FiberMiddleware(opts, instance)
                                ELSE RecoveryMiddleware(instance)),
                               !.nilOpts = @ \/ (kind = "access" /\ opts.nil),
                               !.early = @ \/ nInitDone = 0]
    /\ UNCHANGED <<initVars, h, initHist, getRes, logVars, fieldsCall,
                   req, resp, syncCall>>

\* a request arrives
Request(c, hb) ==
    /\ ~app.panic
    /\ app.stack # <<>>
    /\ ~req.set
    /\ ~resp.served
    /\ req' = [set |-> TRUE, c |-> c, hb |-> hb]
    /\ UNCHANGED <<initVars, h, initHist, getRes, logVars, fieldsCall, app,
                   resp, syncCall>>

\* the stack with each captured *Logger replaced by the Logger it points to
Loggers(stack) ==
    [i \in 1..Len(stack) |-> [stack[i] EXCEPT !.logger = heap[@]]]

\* Fiber runs the stack on the request
Serve ==
    /\ req.set
    /\ written < MaxWritten
    /\ \E r \in HandlerAt(Loggers(app.stack), 1, req.c, req.hb) :
          /\ resp' = [served |-> TRUE, c |-> req.c, hb |-> req.hb, r |-> r]
          /\ out' = r.out
          /\ written' = written + Len(r.out)
    /\ req' = NoReq
    /\ UNCHANGED <<initVars, h, initHist, getRes, args, lastLog, fieldsCall,
                   app, syncCall>>

\* the response has gone to the client; what is remembered of the request
\* is dropped
Respond ==
    /\ resp.served
    /\ resp' = NoResp
    /\ out' = <<>>
    /\ UNCHANGED <<initVars, h, initHist, getRes, args, lastLog, written,
                   fieldsCall, app, req, syncCall>>

(***************************************************************************)
(* Inputs.                                                                 *)
(***************************************************************************)
Hostnames == {"", "node-1"}

\* the configurations of racing Initialize calls
RaceCfgs ==
    {Config("svc-a", LevelINFO),
     [Config("svc-b", LevelWARN) EXCEPT !.ServiceVersion = "2.0.0",
                                        !.Env = "prod"]}

\* the logging call of goroutine p in Spec: its own method, message and map
OwnEntry(p) == IF p = 1 THEN "Info" ELSE "Warn"
OwnMessage(p) == "m" \o ToString(p)
OwnMap(p) == MkMap([k \in {"k"} |-> IntVal(ToString(p))])

\* the configurations of a single start-up call: every Level input
LogCfgs == {Config("svc-a", lv) : lv \in LevelInputs}

Ctxs == {NilCtx, Ctx(0, 0), Ctx(171, 0), Ctx(0, 5), Ctx(171, 5)}
Messages == {"m1", "m2"}
Keys == {"k", "error", "trace_id", "log_type"}
Values == {StrVal("v"), ErrVal("boom")}
LogMaps ==
    {NilMap} \cup
    {MkMap(f) : f \in UNION {[D -> Values] :
                     D \in {E \in SUBSET Keys : Cardinality(E) <= MaxFields}}}

\* maps whose keys are the other names the logger itself uses for fields
CollisionMaps ==
    {MkMap([k \in {"span_id"} |-> StrVal("v")]),
     MkMap([k \in {"error_message"} |-> StrVal("v")]),
     MkMap([k \in {"error", "error_message"} |->
              IF k = "error" THEN ErrVal("boom") ELSE StrVal("v")]),
     MkMap([k \in {"error", "error_type"} |->
              IF k = "error" THEN ErrVal("boom") ELSE StrVal("v")])}

FieldArgs == {StrVal("k"), StrVal("error"), IntVal("7"), ErrVal("boom")}
ArgSeqs == UNION {[1..n -> FieldArgs] : n \in 0..MaxArgs}

FlushResults == {NilVal, ErrVal("sync /dev/stdout: invalid argument")}

HttpCfgs ==
    {Config("svc-a", lv) : lv \in {LevelINFO, LevelWARN, LevelERROR}}
Paths == {<<"/", "h">>, <<"/", "h", "z">>, <<"/", "a">>}
OptsInputs ==
    {NilOpts,
     MiddlewareOptions(<<>>, FALSE, FALSE),
     MiddlewareOptions(<< <<"/", "h">> >>, FALSE, FALSE),
     MiddlewareOptions(<<>>, TRUE, TRUE),
     MiddlewareOptions(<< <<"/", "a">>, <<"/", "h", "z">> >>, FALSE, TRUE)}
Statuses == {101, 200, 302, 399, 400, 404, 499, 500, 503}
PanicValues == {StrVal("boom"), ErrVal("boom"), IntVal("42")}
Requests ==
    {[method |-> "GET", path |-> pa, query |-> q, userAgent |-> "ua",
      ip |-> "10.0.0.1", headers |-> "User-Agent: ua",
      userCtx |-> Ctx(0, 0), locals |-> NilVal, status |-> 200,
      body |-> ""] : pa \in Paths, q \in {"", "a=1"}}
HandlerBehaviours ==
    {[panic |-> NilVal, status |-> st, ret |-> e, userID |-> u,
      duration |-> 2500] :
        st \in Statuses, e \in {NilVal, ErrVal("handler failed")},
        u \in {NilVal, StrVal("u1")}}
    \cup {[panic |-> v, status |-> 200, ret |-> NilVal, userID |-> NilVal,
           duration |-> 2500] : v \in PanicValues}

(***************************************************************************)
(* Spec: goroutines that call Initialize and GetInstance concurrently and  *)
(* log on the handle they got.                                             *)
(***************************************************************************)
Next ==
    \E p \in Procs :
       \/ \E c \in RaceCfgs : InitializeCall(p, c)
       \/ OnceDo(p)
       \/ OnceLock(p)
       \/ NewLogger(p)
       \/ SetZap(p, "node-1")
       \/ OnceDone(p)
       \/ InitializeReturn(p)
       \/ GetInstance(p)
       \/ Prepare(p, OwnEntry(p), NilCtx, OwnMessage(p), OwnMap(p))
       \/ Log(p)

Spec == Init /\ [][Next]_vars

(***************************************************************************)
(* SpecLog: one goroutine initializes the logger once at start-up, with    *)
(* any Level input, and then calls the logging methods with any context,   *)
(* message and field map.                                                  *)
(***************************************************************************)
NextLog ==
    \/ nInitCalls = 0 /\ \E c \in LogCfgs : InitializeCall(1, c)
    \/ OnceDo(1)
    \/ OnceLock(1)
    \/ NewLogger(1)
    \/ \E hn \in Hostnames : SetZap(1, hn)
    \/ OnceDone(1)
    \/ InitializeReturn(1)
    \/ /\ ~args[1].set
       /\ \E e \in EntryPoints, ctx \in Ctxs, msg \in Messages,
             m \in LogMaps \cup CollisionMaps :
             Prepare(1, e, ctx, msg, m)
    \/ Log(1)

SpecLog == Init /\ [][NextLog]_vars

(***************************************************************************)
(* SpecFields: calls of Fields with every argument list up to MaxArgs.     *)
(***************************************************************************)
NextFields == \E kv \in ArgSeqs : FieldsCall(kv)

SpecFields == Init /\ [][NextFields]_vars

(***************************************************************************)
(* SpecSync: one goroutine initialises the logger and calls Sync.          *)
(***************************************************************************)
NextSync ==
    \/ nInitCalls = 0 /\ \E c \in LogCfgs : InitializeCall(1, c)
    \/ OnceDo(1) \/ OnceLock(1) \/ NewLogger(1)
    \/ \E hn \in Hostnames : SetZap(1, hn)
    \/ OnceDone(1) \/ InitializeReturn(1)
    \/ \E f \in FlushResults : SyncCall(1, f)

SpecSync == Init /\ [][NextSync]_vars

(***************************************************************************)
(* SpecHTTP: one goroutine initialises the logger and builds a Fiber       *)
(* application with the access middleware, the recovery middleware or      *)
(* both, each at most once and in either order; then requests are served   *)
(* and answered one after the other.                                       *)
(***************************************************************************)
Installed(kind) == \E i \in 1..Len(app.stack) : app.stack[i].kind = kind
SetUp == ~req.set /\ ~resp.served

NextHTTP ==
    \/ nInitCalls = 0 /\ \E c \in HttpCfgs : InitializeCall(1, c)
    \/ OnceDo(1) \/ OnceLock(1) \/ NewLogger(1)
    \/ SetZap(1, "node-1")
    \/ OnceDone(1) \/ InitializeReturn(1)
    \/ /\ SetUp /\ ~Installed("access")
       /\ \E o \in OptsInputs : Use(1, "access", o)
    \/ SetUp /\ ~Installed("recovery") /\ Use(1, "recovery", NilOpts)
    \/ /\ SetUp
       /\ \E c \in Requests, hb \in HandlerBehaviours : Request(c, hb)
    \/ Serve
    \/ Respond

SpecHTTP == Init /\ [][NextHTTP]_vars

(***************************************************************************)
(* SpecUse: goroutines call Initialize concurrently while an idle one      *)
(* builds the Fiber application, so a middleware constructor may run while *)
(* the first Initialize call is still in progress; requests are then       *)
(* served on the handlers that were returned.                              *)
(***************************************************************************)
UseRequests == {c \in Requests : c.path = <<"/", "a">> /\ c.query = ""}
UseBehaviours ==
    {hb \in HandlerBehaviours :
        hb.status = 200 /\ hb.ret = NilVal /\ hb.userID = NilVal
        /\ hb.panic \in {NilVal, StrVal("boom")}}

NextUse ==
    \/ \E p \in Procs :
          \/ \E c \in RaceCfgs : InitializeCall(p, c)
          \/ OnceDo(p)
          \/ OnceLock(p)
          \/ NewLogger(p)
          \/ SetZap(p, "node-1")
          \/ OnceDone(p)
          \/ InitializeReturn(p)
          \/ SetUp /\ ~Installed("access") /\ Use(p, "access", NilOpts)
          \/ SetUp /\ ~Installed("recovery") /\ Use(p, "recovery", NilOpts)
    \/ /\ SetUp
       /\ \E c \in UseRequests, hb \in UseBehaviours : Request(c, hb)
    \/ Serve
    \/ Respond

SpecUse == Init /\ [][NextUse]_vars

(***************************************************************************)
(* Claims about Initialize and GetInstance, checked under Spec.            *)
(***************************************************************************)

\* C1: when Initialize calls follow one another (none starts while another
\* is in progress), every call returns the same handle, and the config in
\* that handle is the config passed to the first call.
C1_SameHandleFirstConfig ==
    ~overlapped =>
       /\ Cardinality(initRet) <= 1
       /\ \A x \in initRet : x # 0 /\ heap[x].config = firstCfg

\* C1 witness: more than one call has returned, one after the other, and a
\* later call passed a config different from the first one's.
C1_Witness ==
    /\ ~overlapped
    /\ nInitDone > 1
    /\ nInitDone = nInitCalls
    /\ diffCfg

\* C2: the logger is constructed at most once, and every Initialize call
\* that has returned, returned the one constructed handle, with its zap
\* logger built.
C2_OneConstruction ==
    /\ Len(heap) <= 1
    /\ \A x \in initRet : x # 0 /\ x = instance /\ heap[x].zap.set

\* C2 witness: a call found done unset while another call was inside the
\* slow path of once.Do, and all calls have returned.
C2_Witness ==
    /\ contended
    /\ nInitDone > 1
    /\ nInitDone = nInitCalls

\* C3 (as claimed): a GetInstance call panics when no Initialize call had
\* returned before it, and returns the handle Initialize returned when one
\* had.
C3_PanicUnlessInitialized ==
    getRes.outcome # "none" =>
       IF getRes.completed
       THEN getRes.outcome = "returned" /\ getRes.handle \in initRet
       ELSE getRes.outcome = "panic"

(***************************************************************************)
(* Claims about Fields, checked under SpecFields.                          *)
(***************************************************************************)
\* an even number of arguments whose keys (1st, 3rd, ...) are all strings
WellFormed(a) ==
    /\ Len(a) % 2 = 0
    /\ \A i \in 1..Len(a) : i % 2 = 1 => IsString(a[i])

Pairs(a) == 1..(Len(a) \div 2)
KeyAt(a, j) == a[2 * j - 1].v
ValueAt(a, j) == a[2 * j]
DistinctKeys(a) ==
    \A i, j \in Pairs(a) : i # j => KeyAt(a, i) # KeyAt(a, j)

\* C4 (as claimed): well-formed arguments give a map of exactly count/2
\* entries that holds every supplied pair; any other argument list panics.
C4_CountHalfAllPairs ==
    fieldsCall.called =>
       IF WellFormed(fieldsCall.args)
       THEN /\ fieldsCall.panic = ""
            /\ ~fieldsCall.context.nil
            /\ MapLen(fieldsCall.context) = Len(fieldsCall.args) \div 2
            /\ \A j \in Pairs(fieldsCall.args) :
                  /\ MapHas(fieldsCall.context, KeyAt(fieldsCall.args, j))
                  /\ fieldsCall.context.kv[KeyAt(fieldsCall.args, j)]
                        = ValueAt(fieldsCall.args, j)
       ELSE fieldsCall.panic # ""

\* C4 (amended): well-formed arguments give a map with one entry per distinct
\* key, each bound to the value of the last pair naming it, hence count/2
\* entries holding every pair when the keys are pairwise distinct; any other
\* argument list panics.
C4_LastPairPerKey ==
    fieldsCall.called =>
       IF WellFormed(fieldsCall.args)
       THEN /\ fieldsCall.panic = ""
            /\ ~fieldsCall.context.nil
            /\ DOMAIN fieldsCall.context.kv
                  = {KeyAt(fieldsCall.args, j) : j \in Pairs(fieldsCall.args)}
            /\ \A j \in Pairs(fieldsCall.args) :
                  (\A i \in Pairs(fieldsCall.args) :
                      i > j => KeyAt(fieldsCall.args, i)
                                  # KeyAt(fieldsCall.args, j))
                  => fieldsCall.context.kv[KeyAt(fieldsCall.args, j)]
                        = ValueAt(fieldsCall.args, j)
            /\ DistinctKeys(fieldsCall.args)
                  => MapLen(fieldsCall.context) = Len(fieldsCall.args) \div 2
       ELSE fieldsCall.panic # ""

\* C4 witness: Fields was called with two pairs that name the same key with
\* different values, and returned a map.
C4_Witness ==
    /\ fieldsCall.called
    /\ WellFormed(fieldsCall.args)
    /\ Len(fieldsCall.args) = 4
    /\ fieldsCall.args[1] = fieldsCall.args[3]
    /\ fieldsCall.args[2] # fieldsCall.args[4]
    /\ fieldsCall.panic = ""

(***************************************************************************)
(* Claims about the logging methods, checked under SpecLog.                *)
(***************************************************************************)
\* the Logger the last logging call was made on, and the fields of a record
\* that follow the constant fields of the zap logger
Called == heap[h[lastLog.proc]]
PerCall(rec) ==
    SubSeq(rec.fields, Len(Called.zap.with) + 1, Len(rec.fields))
FieldKeys(fs) == {fs[i][1] : i \in 1..Len(fs)}
Returned == lastLog.outcome = "returned"

\* the (severity, log_type) pairs of the claim
ClaimedLevel(e) ==
    CASE e \in {"Info", "HTTP", "Audit"} -> InfoLevel
      [] e \in {"Warn", "Security"} -> WarnLevel
      [] e = "Debug" -> DebugLevel
      [] e = "Error" -> ErrorLevel

ClaimedType(e) ==
    CASE e \in {"Info", "Warn"} -> "normal"
      [] e = "Debug" -> "debug"
      [] e = "Error" -> "error"
      [] e = "HTTP" -> "http"
      [] e = "Security" -> "security"
      [] e = "Audit" -> "audit"

\* C5: the record a logging method writes has the severity and the log_type
\* field fixed for that method, whatever the message, context and fields.
C5_FixedLevelAndType ==
    (Returned /\ out # <<>>) =>
       /\ Len(out) = 1
       /\ out[1].level = ClaimedLevel(lastLog.entry)
       /\ PerCall(out[1])[1]
             = <<"log_type", StrVal(ClaimedType(lastLog.entry))>>
       /\ out[1].message = lastLog.message

\* C5 witness: Security wrote a record for the second message, a valid trace
\* context and a field map that itself has a log_type key.
C5_Witness ==
    /\ Returned
    /\ lastLog.entry = "Security"
    /\ lastLog.message = "m2"
    /\ IsValid(lastLog.ctx)
    /\ MapHas(lastLog.before, "log_type")
    /\ Len(out) = 1

\* the minimum level a Config.Level value configures
ClaimedMinimum(level) ==
    CASE level = "DEBUG" -> DebugLevel
      [] level = "WARN" -> WarnLevel
      [] level = "ERROR" -> ErrorLevel
      [] OTHER -> InfoLevel

\* C6: a logging call writes exactly one record when the method's severity is
\* at or above the configured minimum level, and none otherwise.
C6_SeverityFilter ==
    Returned =>
       Len(out) = IF ClaimedLevel(lastLog.entry)
                        >= ClaimedMinimum(Called.config.Level)
                  THEN 1
                  ELSE 0

\* C6 witness: with Level WARN an Info call returned without writing a record.
C6_Witness ==
    /\ Returned
    /\ Called.config.Level = "WARN"
    /\ lastLog.entry = "Info"
    /\ out = <<>>

C8_LowercaseLevels ==
    Returned =>
       /\ (Called.config.Level = "debug" /\ lastLog.entry = "Debug")
             => Len(out) = 1
       /\ (Called.config.Level = "warn" /\ lastLog.entry = "Info")
             => out = <<>>
       /\ (Called.config.Level = "error" /\ lastLog.entry = "Warn")
             => out = <<>>

\* C9 (as claimed): a record contains trace_id and span_id when the context
\* carries a valid span context and neither of them otherwise; never one
\* without the other, never empty.
C9_BothOrNeither ==
    (Returned /\ out # <<>>) =>
       /\ IF ~lastLog.ctx.nil /\ IsValid(lastLog.ctx)
          THEN {"trace_id", "span_id"} \subseteq FieldKeys(out[1].fields)
          ELSE {"trace_id", "span_id"} \cap FieldKeys(out[1].fields) = {}
       /\ \A i \in 1..Len(out[1].fields) :
             out[1].fields[i][1] \in {"trace_id", "span_id"}
                => out[1].fields[i][2].v # ""

\* C9 (amended): with a valid span context the logger adds trace_id and then
\* span_id right after log_type, both non-empty; with a nil context or one
\* without a valid span it adds neither, and the record has a trace_id or
\* span_id field only where the caller's own field map has that key.
C9_LoggerTraceFields ==
    (Returned /\ out # <<>>) =>
       IF ~lastLog.ctx.nil /\ IsValid(lastLog.ctx)
       THEN /\ Len(PerCall(out[1])) = 3 + MapLen(lastLog.after)
            /\ PerCall(out[1])[2][1] = "trace_id"
            /\ PerCall(out[1])[3][1] = "span_id"
            /\ PerCall(out[1])[2][2].v # ""
            /\ PerCall(out[1])[3][2].v # ""
            /\ PerCall(out[1])[2][2].v # PerCall(out[1])[3][2].v
       ELSE /\ Len(PerCall(out[1])) = 1 + MapLen(lastLog.after)
            /\ \A i \in 2..Len(PerCall(out[1])) :
                  /\ MapHas(lastLog.after, PerCall(out[1])[i][1])
                  /\ PerCall(out[1])[i][2]
                        = lastLog.after.kv[PerCall(out[1])[i][1]]

\* C9 witness: a call with a context whose span context has a trace id but no
\* span id, and a field map with a trace_id key, wrote a record.
C9_Witness ==
    /\ Returned
    /\ Len(out) = 1
    /\ ~lastLog.ctx.nil
    /\ lastLog.ctx.traceID # 0
    /\ lastLog.ctx.spanID = 0
    /\ MapHas(lastLog.before, "trace_id")

\* C10: Error with `error` bound to an error value writes a record that has
\* error_message with the value's message text, error_type "error", and no
\* `error` field.
C10_ErrorObjectFields ==
    (/\ Returned
     /\ lastLog.entry = "Error"
     /\ MapHas(lastLog.before, "error")
     /\ IsError(lastLog.before.kv["error"])) =>
       /\ Len(out) = 1
       /\ \E i \in 1..Len(PerCall(out[1])) :
             PerCall(out[1])[i]
                = <<"error_message", StrVal(lastLog.before.kv["error"].v)>>
       /\ \E i \in 1..Len(PerCall(out[1])) :
             PerCall(out[1])[i] = <<"error_type", StrVal("error")>>
       /\ "error" \notin FieldKeys(out[1].fields)

\* C10 witness: Error was called with `error` bound to an error value next to
\* another field, and wrote a record.
C10_Witness ==
    /\ Returned
    /\ lastLog.entry = "Error"
    /\ MapHas(lastLog.before, "error")
    /\ IsError(lastLog.before.kv["error"])
    /\ MapHas(lastLog.before, "k")
    /\ Len(out) = 1

\* C11: Error changes the caller's own map in place: after a call whose map
\* bound `error` to an error value, that map has no `error` entry, has
\* error_message and error_type, and every other entry is as it was.
C11_CallerMapMutated ==
    (/\ Returned
     /\ lastLog.entry = "Error"
     /\ MapHas(lastLog.before, "error")
     /\ IsError(lastLog.before.kv["error"])) =>
       /\ args[lastLog.proc].context = lastLog.after
       /\ ~MapHas(lastLog.after, "error")
       /\ MapHas(lastLog.after, "error_message")
       /\ MapHas(lastLog.after, "error_type")
       /\ DOMAIN lastLog.after.kv
            = (DOMAIN lastLog.before.kv \ {"error"})
                 \cup {"error_message", "error_type"}
       /\ \A k \in DOMAIN lastLog.before.kv
                    \ {"error", "error_message", "error_type"} :
             lastLog.after.kv[k] = lastLog.before.kv[k]

\* C11 witness: the caller's map held `error` bound to an error value and
\* another entry when Error was called; the call returned and the map the
\* caller holds is no longer the one it passed.
C11_Witness ==
    /\ Returned
    /\ lastLog.entry = "Error"
    /\ MapHas(lastLog.before, "error")
    /\ IsError(lastLog.before.kv["error"])
    /\ MapHas(lastLog.before, "trace_id")
    /\ args[lastLog.proc].context # lastLog.before

(***************************************************************************)
(* Claims about the middleware, checked under SpecHTTP.                    *)
(***************************************************************************)
\* where the two middlewares sit in the stack, and the Logger they captured
AccessPos == CHOOSE i \in 1..Len(app.stack) : app.stack[i].kind = "access"
RecoveryPos ==
    CHOOSE i \in 1..Len(app.stack) : app.stack[i].kind = "recovery"
AccessMw == app.stack[AccessPos]
Captured == heap[app.stack[1].logger]
\* the recovery middleware sits between the access middleware and the route
RecoveryInner ==
    /\ Installed("recovery")
    /\ Installed("access") => RecoveryPos > AccessPos
HandlerPanicked == resp.hb.panic # NilVal
\* the request path is one of the entries of ExcludePaths
Listed ==
    resp.c.path
       \in {AccessMw.opts.ExcludePaths[i] :
              i \in 1..Len(AccessMw.opts.ExcludePaths)}
\* the access middleware saw c.Next() return on a path that is not listed
Logged ==
    /\ resp.served
    /\ Installed("access")
    /\ ~Listed
    /\ HandlerPanicked => RecoveryInner
\* the records of the last request, by the middleware that wrote them
AccessRecords == SelectSeq(out, LAMBDA rec : rec.message # "Panic recovered")
PanicRecords == SelectSeq(out, LAMBDA rec : rec.message = "Panic recovered")
LogTypeOf(rec) == rec.fields[Len(Captured.zap.with) + 1][2].v
Field(rec, key) ==
    {rec.fields[i][2] : i \in {j \in 1..Len(rec.fields) :
                                  rec.fields[j][1] = key}}
\* the entry point the claim assigns to a status code
ClaimedEntry(statusCode) ==
    CASE statusCode >= 500 -> "Error"
      [] statusCode >= 400 /\ statusCode <= 499 -> "Warn"
      [] OTHER -> "HTTP"
Passes(e) == ClaimedLevel(e) >= ClaimedMinimum(Captured.config.Level)

\* C12: the access middleware logs a request through the entry point its
\* response status selects: 500 and above through Error, 400 to 499 through
\* Warn, everything else through HTTP; a logged request has one record, with
\* the severity and log_type of that entry point, when that severity passes
\* the threshold, and none otherwise.
C12_DispatchByStatus ==
    Logged =>
       IF Passes(ClaimedEntry(resp.r.c.status))
       THEN /\ Len(AccessRecords) = 1
            /\ AccessRecords[1].level
                 = ClaimedLevel(ClaimedEntry(resp.r.c.status))
            /\ LogTypeOf(AccessRecords[1])
                 = ClaimedType(ClaimedEntry(resp.r.c.status))
       ELSE Len(AccessRecords) = 0

\* C12 witness: a request answered with status 400 was logged at Warn
\* severity with log_type normal.
C12_Witness ==
    /\ Logged
    /\ resp.r.c.status = 400
    /\ Len(AccessRecords) = 1
    /\ AccessRecords[1].level = WarnLevel
    /\ LogTypeOf(AccessRecords[1]) = TypeNormal

\* C13: a request whose path equals an entry of ExcludePaths writes no
\* access record and the route handler still runs; a path that differs from
\* every entry, also one that an entry is a proper prefix of, is logged.
C13_ExactExclusion ==
    (resp.served /\ Installed("access")) =>
       IF Listed
       THEN Len(AccessRecords) = 0 /\ resp.r.calls = 1
       ELSE (Logged /\ Passes(ClaimedEntry(resp.r.c.status)))
               => Len(AccessRecords) = 1

\* C13 witness: /h is excluded, and a request for /hz was logged.
C13_Witness ==
    /\ Logged
    /\ AccessMw.opts.ExcludePaths = << <<"/", "h">> >>
    /\ resp.c.path = <<"/", "h", "z">>
    /\ Len(AccessRecords) = 1

\* C14: when the handler below the recovery middleware panics, with any
\* value, exactly one Error record "Panic recovered" is written, the response
\* is 500 with the body {"error":"internal server error"} and the panic goes
\* no further; when nothing panics no such record is written and the status,
\* the body and the returned value are the handler's.
C14_RecoverAndLog ==
    (resp.served /\ Installed("recovery")) =>
       IF HandlerPanicked
       THEN /\ Len(PanicRecords) = 1
            /\ PanicRecords[1].level = ErrorLevel
            /\ Field(PanicRecords[1], "panic") = {resp.hb.panic}
            /\ resp.r.panic = NilVal
            /\ resp.r.c.status = 500
            /\ resp.r.c.body = "{\"error\":\"internal server error\"}"
       ELSE /\ Len(PanicRecords) = 0
            /\ resp.r.panic = NilVal
            /\ resp.r.c.status = resp.hb.status
            /\ resp.r.c.body = "ok"
            /\ resp.r.ret = resp.hb.ret

\* C14 witness: the recovery middleware alone, a handler that panicked with
\* an error value, and the record of the recovered panic.
C14_Witness ==
    /\ resp.served
    /\ Installed("recovery")
    /\ ~Installed("access")
    /\ resp.hb.panic = ErrVal("boom")
    /\ Len(PanicRecords) = 1
    /\ resp.r.c.status = 500

\* C15: with the access middleware installed first and the recovery
\* middleware second, a request whose handler panics writes first the Error
\* record "Panic recovered" and then the access record, which is an Error
\* record with status_code 500; the response status is 500.
C15_RecoveredThenLogged ==
    (/\ resp.served
     /\ Installed("access")
     /\ RecoveryInner
     /\ ~Listed
     /\ HandlerPanicked) =>
       /\ Len(out) = 2
       /\ out[1].message = "Panic recovered"
       /\ out[1].level = ErrorLevel
       /\ out[2].message # "Panic recovered"
       /\ out[2].level = ErrorLevel
       /\ LogTypeOf(out[2]) = TypeError
       /\ Field(out[2], "status_code") = {IntVal("500")}
       /\ resp.r.panic = NilVal
       /\ resp.r.c.status = 500

\* C15 witness: both middlewares in that order, the handler panicked, and two
\* records were written.
C15_Witness ==
    /\ resp.served
    /\ Len(app.stack) = 2
    /\ app.stack[1].kind = "access"
    /\ app.stack[2].kind = "recovery"
    /\ HandlerPanicked
    /\ Len(out) = 2
    /\ Captured.config.Level = "ERROR"

C18_PassThrough ==
    (/\ resp.served
     /\ Installed("access")
     /\ HandlerPanicked => RecoveryInner) =>
       /\ resp.r.calls = 1
       /\ resp.r.panic = NilVal
       /\ resp.r.ret = IF HandlerPanicked THEN NilVal ELSE resp.hb.ret

\* C18 witness: a logged request with status 500 whose handler returned an
\* error, and the middleware returned that error.
C18_Witness ==
    /\ Logged
    /\ Len(AccessRecords) = 1
    /\ resp.hb.status = 500
    /\ resp.hb.ret = ErrVal("handler failed")
    /\ resp.r.ret = ErrVal("handler failed")

(***************************************************************************)
(* Claims about Sync, checked under SpecSync.                              *)
(***************************************************************************)
\* C16: Sync on an initialised handle flushes the sink exactly once and
\* returns what the flush returned, nil or that error; it does not panic and
\* it changes nothing of the logger.
C16_SyncResult ==
    /\ [](syncCall.called =>
            /\ ~syncCall.panic
            /\ syncCall.flushes = 1
            /\ syncCall.ret = syncCall.flush)
    /\ [][syncCall' # syncCall =>
            UNCHANGED <<instance, once, heap, h, out, written>>]_vars

\* C16 witness: the flush failed and Sync returned its error.
C16_Witness ==
    /\ syncCall.called
    /\ syncCall.flush = ErrVal("sync /dev/stdout: invalid argument")
    /\ syncCall.ret = syncCall.flush
    /\ ~syncCall.panic

C20_ConstantFields ==
    (Returned /\ Len(out) = 1) =>
       /\ Len(out[1].fields) >= 4
       /\ <<out[1].fields[1][1], out[1].fields[2][1], out[1].fields[3][1],
            out[1].fields[4][1]>>
             = <<"service.name", "service.version", "env", "host.name">>
       /\ <<out[1].fields[1][2], out[1].fields[2][2], out[1].fields[3][2]>>
             = <<StrVal(heap[instance].config.ServiceName),
                 StrVal(heap[instance].config.ServiceVersion),
                 StrVal(heap[instance].config.Env)>>
       /\ ~overlapped => heap[instance].config = firstCfg

\* C20 witness: two Initialize calls with different configs had returned,
\* one after the other, before the call that wrote the last record, and the
\* first config was the one with the other version and environment.
C20_Witness ==
    /\ Returned
    /\ Len(out) = 1
    /\ ~overlapped
    /\ diffCfg
    /\ lastLog.later
    /\ firstCfg.Env = "prod"
    /\ out[1].fields[3][2] = StrVal("prod")

(***************************************************************************)
(* Further claims about the logging methods, checked under SpecLog.        *)
(***************************************************************************)
\* the values of the per-call fields of a record that have the given key, in
\* the order of the record
ValuesOf(rec, key) ==
    [i \in 1..Len(SelectSeq(PerCall(rec), LAMBDA f : f[1] = key)) |->
        SelectSeq(PerCall(rec), LAMBDA f : f[1] = key)[i][2]]
ReservedKeys ==
    {"log_type", "trace_id", "span_id", "error_message", "error_type"}
ValidCtx == ~lastLog.ctx.nil /\ IsValid(lastLog.ctx)
ErrorLike ==
    /\ lastLog.entry = "Error"
    /\ MapHas(lastLog.before, "error")
    /\ IsError(lastLog.before.kv["error"])

\* C21 (as claimed): when a key of the caller's map is one of log_type,
\* trace_id, span_id, error_message, error_type, the record holds the
\* caller's value for that key and not the value the logger generates.
C21_CallerValueOnly ==
    (Returned /\ Len(out) = 1) =>
       \A k \in ReservedKeys \cap DOMAIN lastLog.before.kv :
          ValuesOf(out[1], k) = <<lastLog.before.kv[k]>>

\* C21 (amended): a caller's log_type, trace_id or span_id is written as a
\* second field of that name after the logger's own field, which stays in
\* the record; a caller's error_message or error_type is replaced by the
\* logger's value, in the record and in the caller's map, when Error is
\* called with an error value under `error`; where the logger generates no
\* value of that name the caller's entry is the only field of that name.
C21_BothFieldsOrLoggerValue ==
    (Returned /\ Len(out) = 1) =>
       \A k \in ReservedKeys \cap DOMAIN lastLog.before.kv :
          CASE k = "log_type" ->
                 ValuesOf(out[1], k)
                    = <<StrVal(ClaimedType(lastLog.entry)),
                        lastLog.before.kv[k]>>
            [] k = "trace_id" ->
                 ValuesOf(out[1], k)
                    = IF ValidCtx
                      THEN <<StrVal(IDString(lastLog.ctx.traceID)),
                             lastLog.before.kv[k]>>
                      ELSE <<lastLog.before.kv[k]>>
            [] k = "span_id" ->
                 ValuesOf(out[1], k)
                    = IF ValidCtx
                      THEN <<StrVal(IDString(lastLog.ctx.spanID)),
                             lastLog.before.kv[k]>>
                      ELSE <<lastLog.before.kv[k]>>
            [] k = "error_message" ->
                 IF ErrorLike
                 THEN /\ ValuesOf(out[1], k)
                           = <<StrVal(lastLog.before.kv["error"].v)>>
                      /\ lastLog.after.kv[k]
                           = StrVal(lastLog.before.kv["error"].v)
                 ELSE ValuesOf(out[1], k) = <<lastLog.before.kv[k]>>
            [] k = "error_type" ->
                 IF ErrorLike
                 THEN /\ ValuesOf(out[1], k) = <<StrVal("error")>>
                      /\ lastLog.after.kv[k] = StrVal("error")
                 ELSE ValuesOf(out[1], k) = <<lastLog.before.kv[k]>>

\* C21 witness: a call with a valid span context and a map with the keys
\* log_type and trace_id wrote a record.
C21_Witness ==
    /\ Returned
    /\ Len(out) = 1
    /\ ValidCtx
    /\ DOMAIN lastLog.before.kv = {"log_type", "trace_id"}

\* C22: in the per-call fields of a record log_type is first, trace_id and
\* then span_id follow it at once when the context has a valid span, and
\* after them comes every entry of the caller's map (as the call leaves it),
\* each exactly once and nothing else.
C22_FieldOrder ==
    (Returned /\ Len(out) = 1) =>
       LET pcf == PerCall(out[1])
           n == IF ValidCtx THEN 3 ELSE 1
       IN /\ Len(pcf) = n + MapLen(lastLog.after)
          /\ pcf[1] = <<"log_type", StrVal(ClaimedType(lastLog.entry))>>
          /\ ValidCtx =>
                /\ pcf[2] = <<"trace_id",
                              StrVal(IDString(lastLog.ctx.traceID))>>
                /\ pcf[3] = <<"span_id",
                              StrVal(IDString(lastLog.ctx.spanID))>>
          /\ \A k \in DOMAIN lastLog.after.kv :
                Cardinality({i \in (n + 1)..Len(pcf) :
                               pcf[i] = <<k, lastLog.after.kv[k]>>}) = 1

\* C22 witness: a call with a valid span context and a map with the keys k
\* and error wrote a record in which error comes before k.
C22_Witness ==
    /\ Returned
    /\ Len(out) = 1
    /\ ValidCtx
    /\ Len(PerCall(out[1])) = 5
    /\ PerCall(out[1])[4][1] = "error"
    /\ PerCall(out[1])[5][1] = "k"

\* C24: Error with `error` bound to a value that is not an error (a string)
\* writes the `error` field with that value, adds neither error_message nor
\* error_type, and leaves the caller's map as it was.
C24_NonErrorPassesThrough ==
    (/\ Returned
     /\ lastLog.entry = "Error"
     /\ MapHas(lastLog.before, "error")
     /\ ~IsError(lastLog.before.kv["error"])) =>
       /\ Len(out) = 1
       /\ ValuesOf(out[1], "error") = <<lastLog.before.kv["error"]>>
       /\ \A k \in {"error_message", "error_type"} :
             ValuesOf(out[1], k) = IF MapHas(lastLog.before, k)
                                   THEN <<lastLog.before.kv[k]>>
                                   ELSE <<>>
       /\ lastLog.after = lastLog.before
       /\ args[lastLog.proc].context = lastLog.before

\* C24 witness: Error was called with `error` bound to the string "v" next
\* to another field, and wrote a record.
C24_Witness ==
    /\ Returned
    /\ lastLog.entry = "Error"
    /\ DOMAIN lastLog.before.kv = {"error", "k"}
    /\ lastLog.before.kv["error"] = StrVal("v")
    /\ Len(out) = 1

\* C30: every logging method, Error too, takes a nil map without panicking
\* and leaves it nil; the record, when the severity passes the threshold,
\* has log_type, then trace_id and span_id when the context has a valid
\* span, and no other per-call field.
C30_NilMapAccepted ==
    (lastLog.outcome # "none" /\ lastLog.before = NilMap) =>
       /\ Returned
       /\ lastLog.after = NilMap
       /\ args[lastLog.proc].context = NilMap
       /\ Len(out) = IF ClaimedLevel(lastLog.entry)
                           >= ClaimedMinimum(Called.config.Level)
                     THEN 1
                     ELSE 0
       /\ Len(out) = 1 =>
             PerCall(out[1])
                = << <<"log_type", StrVal(ClaimedType(lastLog.entry))>> >>
                  \o (IF ValidCtx
                      THEN << <<"trace_id",
                                StrVal(IDString(lastLog.ctx.traceID))>>,
                              <<"span_id",
                                StrVal(IDString(lastLog.ctx.spanID))>> >>
                      ELSE <<>>)

\* C30 witness: Error was called with a nil map and a valid span context and
\* wrote a record.
C30_Witness ==
    /\ Returned
    /\ lastLog.entry = "Error"
    /\ lastLog.before = NilMap
    /\ ValidCtx
    /\ Len(out) = 1

(***************************************************************************)
(* Further claims about the middleware, checked under SpecHTTP.            *)
(***************************************************************************)
\* C23: the message of an access record is "<METHOD> <PATH> <STATUS>", and
\* the status in the message, the status_code field and the status that
\* chose the entry point are one value: the response status after the
\* handler below the middleware returned.
C23_OneStatus ==
    (Logged /\ Len(AccessRecords) = 1) =>
       /\ resp.r.c.status = IF HandlerPanicked THEN 500 ELSE resp.hb.status
       /\ AccessRecords[1].message
            = resp.c.method \o " " \o PathString(resp.c.path) \o " "
                 \o ToString(resp.r.c.status)
       /\ Field(AccessRecords[1], "status_code")
            = {IntVal(ToString(resp.r.c.status))}
       /\ AccessRecords[1].level
            = ClaimedLevel(ClaimedEntry(resp.r.c.status))
       /\ LogTypeOf(AccessRecords[1])
            = ClaimedType(ClaimedEntry(resp.r.c.status))

\* C23 witness: a request for /hz answered with status 503 was logged with
\* the message "GET /hz 503".
C23_Witness ==
    /\ Logged
    /\ Len(AccessRecords) = 1
    /\ resp.hb.status = 503
    /\ AccessRecords[1].message = "GET /hz 503"

\* C25: a request on a path that is not excluded writes exactly one access
\* record when the severity its status selects is at or above the minimum
\* level, and none otherwise; a handler answering 404 gives exactly one Warn
\* record whose status_code is 404.
C25_OneRecordIfSevere ==
    Logged =>
       /\ Len(AccessRecords)
            = IF Passes(ClaimedEntry(resp.r.c.status)) THEN 1 ELSE 0
       /\ (resp.r.c.status = 404 /\ Captured.config.Level # "ERROR") =>
             /\ Len(AccessRecords) = 1
             /\ AccessRecords[1].level = WarnLevel
             /\ Field(AccessRecords[1], "status_code") = {IntVal("404")}

\* C25 witness: with minimum level WARN a handler answered 404 and one Warn
\* record with status_code 404 was written.
C25_Witness ==
    /\ Logged
    /\ Captured.config.Level = "WARN"
    /\ resp.hb.status = 404
    /\ Len(AccessRecords) = 1
    /\ AccessRecords[1].level = WarnLevel
    /\ Field(AccessRecords[1], "status_code") = {IntVal("404")}

\* C29: with the recovery middleware installed first and the access
\* middleware second, a request whose handler panics writes exactly one
\* record, the Error record "Panic recovered", and no access record.
C29_ReverseOrderNoAccessRecord ==
    (/\ resp.served
     /\ Installed("access")
     /\ Installed("recovery")
     /\ RecoveryPos < AccessPos
     /\ HandlerPanicked) =>
       /\ Len(out) = 1
       /\ out[1].message = "Panic recovered"
       /\ out[1].level = ErrorLevel
       /\ Len(AccessRecords) = 0
       /\ resp.r.panic = NilVal
       /\ resp.r.c.status = 500

\* C29 witness: recovery first, access second, a path that is not excluded,
\* a handler that panicked, and one record.
C29_Witness ==
    /\ resp.served
    /\ Len(app.stack) = 2
    /\ app.stack[1].kind = "recovery"
    /\ app.stack[2].kind = "access"
    /\ ~Listed
    /\ HandlerPanicked
    /\ Len(out) = 1

\* the stack with the options of the access middleware replaced
WithOpts(opts) ==
    [i \in 1..Len(app.stack) |->
        IF app.stack[i].kind = "access"
        THEN FiberMiddleware(opts, app.stack[i].logger)
        ELSE app.stack[i]]

\* C26: FiberMiddleware(nil) behaves like FiberMiddleware with empty
\* ExcludePaths and both flags false: the handler installed for nil options
\* is the one installed for these defaults, and on every request the
\* application is about to serve the two write the same records and give
\* the same response, neither of them panicking unless the route handler
\* did.
C26_NilOptsAreDefaults ==
    LET defaults == MiddlewareOptions(<<>>, FALSE, FALSE)
        withNil == HandlerAt(Loggers(WithOpts(NilOpts)), 1, req.c, req.hb)
        withDefaults == HandlerAt(Loggers(WithOpts(defaults)), 1, req.c,
                                  req.hb)
    IN  /\ (app.nilOpts /\ Installed("access")) =>
              AccessMw = FiberMiddleware(defaults, AccessMw.logger)
        /\ (req.set /\ Installed("access")) =>
              /\ withNil = withDefaults
              /\ \A r \in withNil :
                    r.panic # NilVal => r.panic = req.hb.panic
              /\ AccessMw.opts = defaults =>
                    withNil = HandlerAt(Loggers(app.stack), 1, req.c, req.hb)

\* C26 witness: the access middleware was built with nil options, and a
\* request on it was logged and answered.
C26_Witness ==
    /\ resp.served
    /\ app.nilOpts
    /\ Installed("access")
    /\ Len(AccessRecords) = 1
    /\ resp.r.panic = NilVal
    /\ resp.r.c.status = 200

\* C27 (as claimed): FiberMiddleware or RecoveryMiddleware called when no
\* Initialize call has completed panics and returns no handler, so no
\* handler in the application was constructed that early.
C27_PanicsBeforeInitialize ==
    /\ ~app.early
    /\ (app.stack # <<>> /\ app.stack[1].logger # 0) => nInitDone > 0

\* C28 (as claimed): a handle GetInstance has returned has its zap logger
\* built, whatever a concurrent first Initialize call is doing, and a
\* logging call on a handle a goroutine holds never panics on an unset zap
\* logger.
C28_NoPartialHandle ==
    /\ getRes.outcome = "returned" => heap[getRes.handle].zap.set
    /\ \A p \in Procs : h[p] # 0 => heap[h[p]].zap.set
    /\ lastLog.outcome # "panic"

====
